---- MODULE Spec2Model ----
(***************************************************************************)
(* DatabaseService (src/src/database.cpp) over an abstract                 *)
(* DatabaseInterface (src/include/database_interface.h).                   *)
(*                                                                         *)
(* The service holds a shared pointer database_ and a flag initialized_.   *)
(* The backend is an interface without an implementation in the            *)
(* repository: every value it returns is an input of the operation (any    *)
(* test double may return anything), except the connection status, which   *)
(* is backend state that changes independently of the service.             *)
(* Strings are sequences of one-character strings, so that formatting is   *)
(* a computation and not an identity.                                      *)
(***************************************************************************)
EXTENDS Integers, Sequences, FiniteSets, TLC

VARIABLES
    database_,      \* "null" or "db": the std::shared_ptr<DatabaseInterface>
    initialized_,   \* DatabaseService::initialized_
    dbConnected,    \* what the backend's isConnected() answers right now
    crashed,        \* a null database_ was dereferenced (undefined behaviour)
    last,           \* the most recent operation: name, arguments, result,
                    \* the backend calls it made, and initialized_ and the
                    \* backend's connection status on entry
    history,        \* names of all backend methods the service has invoked
    connectOk,      \* history: some backend connect has returned true
    initCalls,      \* number of initializeConnection calls so far
    repeated,       \* history: the last operation repeated the one before
                    \* it (same operation, arguments, connection status and
                    \* backend answers)
    reinitFailed,   \* history: an initializeConnection on an Initialized
                    \* service has had connect return false
    scenario        \* progress of the operations so far along the sequence
                    \* of the OrderedExpectations test (0..3), -1 once they
                    \* have left it

vars == <<database_, initialized_, dbConnected, crashed, last, history,
          connectOk, initCalls, repeated, reinitFailed, scenario>>

(***************************************************************************)
(* Calculator (src/src/calculator.cpp) and the FixtureVerificationTest     *)
(* fixture of src/tests/fixture_test.cpp run by the googletest runner.     *)
(* Each has a specification of its own (CalcSpec, FixtureSpec); the        *)
(* three parts of the program share no state.                              *)
(***************************************************************************)
VARIABLES
    stored_value_,  \* Calculator::stored_value_ (a double)
    value_,         \* Calculator::value_ (an int no method touches)
    calcPc,         \* "idle", "factorial" (inside the loop) or "aborted"
    frame,          \* factorial's locals n, i, result while in the loop
    calcLast,       \* the most recent completed Calculator call
    lastSet         \* history: argument of the most recent setValue

calcVars == <<stored_value_, value_, calcPc, frame, calcLast, lastSet>>

VARIABLES
    verification_setup_called,     \* static flags of FixtureVerificationTest
    verification_teardown_called,
    runQueue,       \* tests of the current iteration still to run, in order
    iteration,      \* current iteration of the test program (1..repeat)
    flags,          \* --gtest_filter, --gtest_shuffle, --gtest_repeat
    testPc,         \* "start", "ready", "body", "TearDown", "end"
    current,        \* the test being run
    failures        \* expectations that have failed so far

fixtureVars == <<verification_setup_called, verification_teardown_called,
                 runQueue, iteration, flags, testPc, current, failures>>

allVars == <<vars, calcVars, fixtureVars>>

(* The elements of a sequence *)
Range(seq) == {seq[i] : i \in DOMAIN seq}

(* A double: NaN, a signed infinity, a signed zero, or a signed non-zero   *)
(* rational num/den in lowest terms (rounding is not modelled: the finite  *)
(* values used are exactly representable or stand for their rounding).     *)
Double(class, neg, num, den) ==
    [class |-> class, neg |-> neg, num |-> num, den |-> den]

NaN == Double("nan", FALSE, 0, 1)
Infinity(neg) == Double("inf", neg, 1, 0)
Zero(neg) == Double("zero", neg, 0, 1)
Finite(neg, num, den) == Double("finite", neg, num, den)

(* Calculator() = default: stored_value_ = 0.0, value_ = 0 *)
CalcInit ==
    /\ stored_value_ = Zero(FALSE)
    /\ value_ = 0
    /\ calcPc = "idle"
    /\ frame = <<>>
    /\ calcLast = [op |-> "Calculator", args |-> <<>>, ret |-> <<>>,
                   threw |-> "none"]
    /\ lastSet = Zero(FALSE)

(* Static initialisation of fixture_test.cpp; the runner has not started *)
FixtureInit ==
    /\ verification_setup_called = FALSE
    /\ verification_teardown_called = FALSE
    /\ runQueue = <<>>
    /\ iteration = 0
    /\ flags = [filter |-> {}, shuffle |-> FALSE, repeat |-> 0]
    /\ testPc = "start"
    /\ current = "none"
    /\ failures = {}

----------------------------------------------------------------------------
(* Bounds of the model *)

MaxHistory == 7
MaxInitCalls == 2

(* Input domains *)

Alice == <<"A", "l", "i", "c", "e">>
Bob == <<"B", "o", "b">>
EmptyString == <<>>

Descriptors == {<<"t", "e", "s", "t">>, EmptyString}
Names == {EmptyString, Alice, Bob}
Ages == {-12, 0, 7, 25}
UserIds == {1, 2}
Counts == {-1, 0, 1}

----------------------------------------------------------------------------
(* std::to_string(int): optional sign, then the decimal digits *)

DigitChar(d) ==
    CASE d = 0 -> "0" [] d = 1 -> "1" [] d = 2 -> "2" [] d = 3 -> "3"
      [] d = 4 -> "4" [] d = 5 -> "5" [] d = 6 -> "6" [] d = 7 -> "7"
      [] d = 8 -> "8" [] d = 9 -> "9"

RECURSIVE Digits(_)
Digits(n) ==
    IF n < 10 THEN <<DigitChar(n)>>
    ELSE Digits(n \div 10) \o <<DigitChar(n % 10)>>

to_string_NoSign(v) == Digits(IF v < 0 THEN -v ELSE v)

to_string(v) == IF v < 0 THEN <<"-">> \o Digits(-v) ELSE Digits(v)

NamePrefix == <<"N", "a", "m", "e", ":", " ">>
AgeInfix == <<",", " ", "A", "g", "e", ":", " ">>

----------------------------------------------------------------------------
(* A backend call as the backend sees it *)

Call(m, args, ret) == [m |-> m, args |-> args, ret |-> ret]

(* The outcome of one service operation *)

Outcome(ret, calls, init, crash) ==
    [ret |-> ret, calls |-> calls, init |-> init, crash |-> crash]

(* `!initialized_ || !database_->isConnected()`: the flag is tested first  *)
(* and isConnected is called only when it is set; calling it through a     *)
(* null database_ is undefined behaviour.                                  *)
GateCheck_IgnoresConnection(init, db, conn) ==
    IF ~init THEN [open |-> FALSE, calls |-> <<>>, crash |-> FALSE]
    ELSE IF db = "null" THEN [open |-> FALSE, calls |-> <<>>, crash |-> TRUE]
    ELSE [open |-> TRUE,
          calls |-> <<Call("isConnected", <<>>, conn)>>,
          crash |-> FALSE]

GateCheck_IgnoresInitialized(init, db, conn) ==
    IF db = "null" THEN [open |-> FALSE, calls |-> <<>>, crash |-> TRUE]
    ELSE [open |-> conn,
          calls |-> <<Call("isConnected", <<>>, conn)>>,
          crash |-> FALSE]

GateCheck_QueriesTwice(init, db, conn) ==
    IF ~init THEN [open |-> FALSE, calls |-> <<>>, crash |-> FALSE]
    ELSE IF db = "null" THEN [open |-> FALSE, calls |-> <<>>, crash |-> TRUE]
    ELSE [open |-> conn,
          calls |-> <<Call("isConnected", <<>>, conn),
                      Call("isConnected", <<>>, conn)>>,
          crash |-> FALSE]

GateCheck_ConnectionFirst(init, db, conn) ==
    IF db = "null" THEN [open |-> FALSE, calls |-> <<>>, crash |-> TRUE]
    ELSE [open |-> init /\ conn,
          calls |-> <<Call("isConnected", <<>>, conn)>>,
          crash |-> FALSE]

GateCheck(init, db, conn) ==
    IF ~init THEN [open |-> FALSE, calls |-> <<>>, crash |-> FALSE]
    ELSE IF db = "null" THEN [open |-> FALSE, calls |-> <<>>, crash |-> TRUE]
    ELSE [open |-> conn,
          calls |-> <<Call("isConnected", <<>>, conn)>>,
          crash |-> FALSE]

initializeConnectionOp_NoNullCheck(init, db, connectionString, connected) ==
    IF db = "null" THEN Outcome(FALSE, <<>>, init, TRUE)
    ELSE Outcome(connected,
                 <<Call("connect", <<connectionString>>, connected)>>,
                 IF connected THEN TRUE ELSE init,
                 FALSE)

initializeConnectionOp_NeverSetsFlag(init, db, connectionString, connected) ==
    IF db = "null" THEN Outcome(FALSE, <<>>, init, FALSE)
    ELSE Outcome(connected,
                 <<Call("connect", <<connectionString>>, connected)>>,
                 init,
                 FALSE)

initializeConnectionOp_ReturnsFlag(init, db, connectionString, connected) ==
    IF db = "null" THEN Outcome(FALSE, <<>>, init, FALSE)
    ELSE Outcome(IF connected THEN TRUE ELSE init,
                 <<Call("connect", <<connectionString>>, connected)>>,
                 IF connected THEN TRUE ELSE init,
                 FALSE)

initializeConnectionOp_AssignsFlag(init, db, connectionString, connected) ==
    IF db = "null" THEN Outcome(FALSE, <<>>, init, FALSE)
    ELSE Outcome(connected,
                 <<Call("connect", <<connectionString>>, connected)>>,
                 connected,
                 FALSE)

initializeConnectionOp_SkipsIfInit(init, db, connectionString, connected) ==
    IF db = "null" THEN Outcome(FALSE, <<>>, init, FALSE)
    ELSE IF init THEN Outcome(TRUE, <<>>, init, FALSE)
    ELSE Outcome(connected,
                 <<Call("connect", <<connectionString>>, connected)>>,
                 IF connected THEN TRUE ELSE init,
                 FALSE)

initializeConnectionOp_ClearsError(init, db, connectionString, connected) ==
    IF db = "null" THEN Outcome(FALSE, <<>>, init, FALSE)
    ELSE Outcome(connected,
                 <<Call("clearError", <<>>, TRUE),
                   Call("connect", <<connectionString>>, connected)>>,
                 IF connected THEN TRUE ELSE init,
                 FALSE)

initializeConnectionOp_NullSetsFlag(init, db, connectionString, connected) ==
    IF db = "null" THEN Outcome(FALSE, <<>>, TRUE, FALSE)
    ELSE Outcome(connected,
                 <<Call("connect", <<connectionString>>, connected)>>,
                 IF connected THEN TRUE ELSE init,
                 FALSE)

initializeConnectionOp(init, db, connectionString, connected) ==
    IF db = "null" THEN Outcome(FALSE, <<>>, init, FALSE)
    ELSE Outcome(connected,
                 <<Call("connect", <<connectionString>>, connected)>>,
                 IF connected THEN TRUE ELSE init,
                 FALSE)

createUserOp_AlwaysTrue(init, db, conn, name, age, inserted) ==
    LET g == GateCheck(init, db, conn) IN
    IF ~g.open THEN Outcome(FALSE, g.calls, init, g.crash)
    ELSE Outcome(TRUE,
                 g.calls \o <<Call("insertUser", <<name, age>>, inserted)>>,
                 init, FALSE)

createUserOp_ResetsFlag(init, db, conn, name, age, inserted) ==
    LET g == GateCheck(init, db, conn) IN
    IF ~g.open THEN Outcome(FALSE, g.calls, FALSE, g.crash)
    ELSE Outcome(inserted,
                 g.calls \o <<Call("insertUser", <<name, age>>, inserted)>>,
                 init, FALSE)

createUserOp(init, db, conn, name, age, inserted) ==
    LET g == GateCheck(init, db, conn) IN
    IF ~g.open THEN Outcome(FALSE, g.calls, init, g.crash)
    ELSE Outcome(inserted,
                 g.calls \o <<Call("insertUser", <<name, age>>, inserted)>>,
                 init, FALSE)

getUserInfoOp_SkipsAge(init, db, conn, userId, name, age) ==
    LET g == GateCheck(init, db, conn)
        nameLookup == <<Call("getUserName", <<userId>>, name)>>
        ageLookup == <<Call("getUserAge", <<userId>>, age)>>
    IN
    IF ~g.open THEN Outcome(EmptyString, g.calls, init, g.crash)
    ELSE IF name = EmptyString
         THEN Outcome(EmptyString, g.calls \o nameLookup, init, FALSE)
         ELSE Outcome(NamePrefix \o name \o AgeInfix \o to_string(age),
                      g.calls \o nameLookup \o ageLookup, init, FALSE)

getUserInfoOp_ClearsFlagOnMiss(init, db, conn, userId, name, age) ==
    LET g == GateCheck(init, db, conn)
        lookups == <<Call("getUserName", <<userId>>, name),
                     Call("getUserAge", <<userId>>, age)>>
    IN
    IF ~g.open THEN Outcome(EmptyString, g.calls, init, g.crash)
    ELSE IF name = EmptyString
         THEN Outcome(EmptyString, g.calls \o lookups, FALSE, FALSE)
         ELSE Outcome(NamePrefix \o name \o AgeInfix \o to_string(age),
                      g.calls \o lookups, init, FALSE)

getUserInfoOp_NoEmptyCheck(init, db, conn, userId, name, age) ==
    LET g == GateCheck(init, db, conn)
        lookups == <<Call("getUserName", <<userId>>, name),
                     Call("getUserAge", <<userId>>, age)>>
    IN
    IF ~g.open THEN Outcome(EmptyString, g.calls, init, g.crash)
    ELSE Outcome(NamePrefix \o name \o AgeInfix \o to_string(age),
                 g.calls \o lookups, init, FALSE)

getUserInfoOp(init, db, conn, userId, name, age) ==
    LET g == GateCheck(init, db, conn)
        lookups == <<Call("getUserName", <<userId>>, name),
                     Call("getUserAge", <<userId>>, age)>>
    IN
    IF ~g.open THEN Outcome(EmptyString, g.calls, init, g.crash)
    ELSE IF name = EmptyString
         THEN Outcome(EmptyString, g.calls \o lookups, init, FALSE)
         ELSE Outcome(NamePrefix \o name \o AgeInfix \o to_string(age),
                      g.calls \o lookups, init, FALSE)

removeUserOp(init, db, conn, userId, deleted) ==
    LET g == GateCheck(init, db, conn) IN
    IF ~g.open THEN Outcome(FALSE, g.calls, init, g.crash)
    ELSE Outcome(deleted,
                 g.calls \o <<Call("deleteUser", <<userId>>, deleted)>>,
                 init, FALSE)

getTotalUsersOp_ZeroSentinel(init, db, conn, count) ==
    LET g == GateCheck(init, db, conn) IN
    IF ~g.open THEN Outcome(0, g.calls, init, g.crash)
    ELSE Outcome(count,
                 g.calls \o <<Call("getUserCount", <<>>, count)>>,
                 init, FALSE)

getTotalUsersOp_DropsCount(init, db, conn, count) ==
    LET g == GateCheck(init, db, conn) IN
    IF ~g.open THEN Outcome(-1, g.calls, init, g.crash)
    ELSE Outcome(0,
                 g.calls \o <<Call("getUserCount", <<>>, count)>>,
                 init, FALSE)

getTotalUsersOp(init, db, conn, count) ==
    LET g == GateCheck(init, db, conn) IN
    IF ~g.open THEN Outcome(-1, g.calls, init, g.crash)
    ELSE Outcome(count,
                 g.calls \o <<Call("getUserCount", <<>>, count)>>,
                 init, FALSE)

----------------------------------------------------------------------------
(* State machine *)

Methods(calls) == [i \in DOMAIN calls |-> calls[i].m]

(* OrderedExpectations: initializeConnection with connect -> true, then    *)
(* createUser with the backend connected and insertUser -> true, then      *)
(* getTotalUsers with the backend connected and getUserCount -> 1.  The    *)
(* step reached after operation op with outcome o, the backend's           *)
(* connection status being conn on entry.                                  *)
ScenarioStep(step, op, o, conn) ==
    LET Answers(m) == {o.calls[i].ret : i \in {j \in DOMAIN o.calls :
                                                  o.calls[j].m = m}}
    IN
    IF step = 0 /\ op = "initializeConnection"
                /\ Answers("connect") = {TRUE} THEN 1
    ELSE IF step = 1 /\ op = "createUser" /\ conn
                     /\ Answers("insertUser") \subseteq {TRUE} THEN 2
    ELSE IF step = 2 /\ op = "getTotalUsers" /\ conn
                     /\ Answers("getUserCount") \subseteq {1} THEN 3
    ELSE -1

(* The caller observes the outcome o of operation op *)
Apply(op, args, o) ==
    /\ ~crashed
    /\ Len(history) + Len(o.calls) <= MaxHistory
    /\ last' = [op |-> op, args |-> args, ret |-> o.ret, calls |-> o.calls,
                init |-> initialized_, conn |-> dbConnected]
    /\ initialized_' = o.init
    /\ crashed' = o.crash
    /\ history' = history \o Methods(o.calls)
    /\ connectOk' = (connectOk \/ \E i \in DOMAIN o.calls :
                        o.calls[i].m = "connect" /\ o.calls[i].ret)
    /\ repeated' = (/\ op = last.op
                    /\ args = last.args
                    /\ dbConnected = last.conn
                    /\ o.calls = last.calls)
    /\ reinitFailed' = (reinitFailed \/ (/\ op = "initializeConnection"
                                          /\ initialized_
                                          /\ Len(o.calls) = 1
                                          /\ ~o.calls[1].ret))
    /\ scenario' = ScenarioStep(scenario, op, o, dbConnected)
    /\ UNCHANGED <<database_, dbConnected>>
    /\ UNCHANGED <<calcVars, fixtureVars>>

(* DatabaseService::DatabaseService: db may be a null pointer *)
Init ==
    /\ database_ \in {"null", "db"}
    /\ initialized_ = FALSE
    /\ dbConnected = FALSE
    /\ crashed = FALSE
    /\ last = [op |-> "DatabaseService", args |-> <<database_>>,
               ret |-> TRUE, calls |-> <<>>, init |-> FALSE,
               conn |-> FALSE]
    /\ history = <<>>
    /\ connectOk = FALSE
    /\ initCalls = 0
    /\ repeated = FALSE
    /\ reinitFailed = FALSE
    /\ scenario = 0
    /\ CalcInit
    /\ FixtureInit

initializeConnection ==
    /\ initCalls < MaxInitCalls
    /\ initCalls' = initCalls + 1
    /\ \E connectionString \in Descriptors, connected \in BOOLEAN :
          Apply("initializeConnection", <<connectionString>>,
                initializeConnectionOp(initialized_, database_,
                                       connectionString, connected))

createUser ==
    /\ UNCHANGED initCalls
    /\ \E name \in Names, age \in Ages, inserted \in BOOLEAN :
          Apply("createUser", <<name, age>>,
                createUserOp(initialized_, database_, dbConnected,
                             name, age, inserted))

getUserInfo ==
    /\ UNCHANGED initCalls
    /\ \E userId \in UserIds, name \in Names, age \in Ages :
          Apply("getUserInfo", <<userId>>,
                getUserInfoOp(initialized_, database_, dbConnected,
                              userId, name, age))

removeUser ==
    /\ UNCHANGED initCalls
    /\ \E userId \in UserIds, deleted \in BOOLEAN :
          Apply("removeUser", <<userId>>,
                removeUserOp(initialized_, database_, dbConnected,
                             userId, deleted))

getTotalUsers ==
    /\ UNCHANGED initCalls
    /\ \E count \in Counts :
          Apply("getTotalUsers", <<>>,
                getTotalUsersOp(initialized_, database_, dbConnected, count))

(* The backend's connection comes up or drops on its own, or the caller    *)
(* invokes the shared backend's disconnect() directly; the service is not  *)
(* involved and is not told.                                               *)
ConnectionChange ==
    /\ ~crashed
    /\ database_ = "db"
    /\ dbConnected' = ~dbConnected
    /\ UNCHANGED <<database_, initialized_, crashed, last, history,
                   connectOk, initCalls, repeated, reinitFailed, scenario>>
    /\ UNCHANGED <<calcVars, fixtureVars>>

Next ==
    \/ initializeConnection
    \/ createUser
    \/ getUserInfo
    \/ removeUser
    \/ getTotalUsers
    \/ ConnectionChange

Spec == Init /\ [][Next]_vars

----------------------------------------------------------------------------
(* Calculator: values *)

MaxFactorialArg == 21

FactorialArgs == (-2)..MaxFactorialArg
Ints == {-3, 0, 2, 5}
Doubles == {NaN, Infinity(FALSE), Infinity(TRUE), Zero(FALSE), Zero(TRUE),
            Finite(TRUE, 4, 1), Finite(FALSE, 4, 1), Finite(FALSE, 16, 1)}
Strings == {EmptyString, <<"h", "i">>, <<"T", "e", "s", "t", "1">>}

(* A long long: four 16-bit limbs, least significant first, in two's       *)
(* complement.                                                             *)
LimbBase == 2 ^ 16

LongLong(k) == <<k, 0, 0, 0>>

(* result *= i for 0 <= result and a small i > 0: the low 64 bits of the   *)
(* product, and whether the product exceeds LLONG_MAX.                     *)
MulSmall(x, k) ==
    LET p1 == x[1] * k
        p2 == x[2] * k + (p1 \div LimbBase)
        p3 == x[3] * k + (p2 \div LimbBase)
        p4 == x[4] * k + (p3 \div LimbBase)
    IN [val |-> <<p1 % LimbBase, p2 % LimbBase, p3 % LimbBase,
                  p4 % LimbBase>>,
        overflow |-> (p4 \div LimbBase > 0) \/ (p4 % LimbBase >= 2 ^ 15)]

RECURSIVE GCD(_, _)
GCD(a, b) == IF b = 0 THEN a ELSE GCD(b, a % b)

EqualsZero_PositiveOnly(b) == b.class = "zero" /\ ~b.neg

(* b == 0.0 and x < 0 on doubles: both signed zeros equal 0.0, and every   *)
(* comparison with NaN is false.                                           *)
EqualsZero(b) == b.class = "zero"

LessThanZero(x) == x.class \in {"inf", "finite"} /\ x.neg

(* a / b for b # 0 (IEEE 754); the finite values used divide exactly *)
Quotient(a, b) ==
    LET neg == (a.neg # b.neg) IN
    IF a.class = "nan" \/ b.class = "nan" THEN NaN
    ELSE IF a.class = "inf"
         THEN (IF b.class = "inf" THEN NaN ELSE Infinity(neg))
    ELSE IF b.class = "inf" THEN Zero(neg)
    ELSE IF a.class = "zero" THEN Zero(neg)
    ELSE LET n == a.num * b.den
             d == a.den * b.num
             g == GCD(n, d)
         IN Finite(neg, n \div g, d \div g)

(* std::sqrt(x) for x not less than zero; finite arguments are squares *)
Sqrt(x) ==
    IF x.class \in {"nan", "inf", "zero"} THEN x
    ELSE Finite(FALSE,
                CHOOSE r \in 1..x.num : r * r = x.num,
                CHOOSE r \in 1..x.den : r * r = x.den)

(* a % b of C++ (truncating division), b > 0 *)
Remainder(a, b) == IF a >= 0 THEN a % b ELSE -((-a) % b)

(* ::toupper in the "C" locale *)
ToUpper(c) ==
    CASE c = "a" -> "A" [] c = "b" -> "B" [] c = "c" -> "C" [] c = "d" -> "D"
      [] c = "e" -> "E" [] c = "f" -> "F" [] c = "g" -> "G" [] c = "h" -> "H"
      [] c = "i" -> "I" [] c = "j" -> "J" [] c = "k" -> "K" [] c = "l" -> "L"
      [] c = "m" -> "M" [] c = "n" -> "N" [] c = "o" -> "O" [] c = "p" -> "P"
      [] c = "q" -> "Q" [] c = "r" -> "R" [] c = "s" -> "S" [] c = "t" -> "T"
      [] c = "u" -> "U" [] c = "v" -> "V" [] c = "w" -> "W" [] c = "x" -> "X"
      [] c = "y" -> "Y" [] c = "z" -> "Z" [] OTHER -> c

----------------------------------------------------------------------------
(* Calculator: operations.  The result of a call: the value returned, the  *)
(* exception thrown ("none" when it returns, "pending" while the call is   *)
(* still running), and stored_value_ after it.                             *)

Result(ret, threw, stored) == [ret |-> ret, threw |-> threw, stored |-> stored]

addOp(stored, a, b) == Result(a + b, "none", stored)

subtractOp(stored, a, b) == Result(a - b, "none", stored)

multiplyOp(stored, a, b) == Result(a * b, "none", stored)

divideOp_StoresQuotient(stored, a, b) ==
    IF EqualsZero(b) THEN Result(NaN, "std::invalid_argument", stored)
    ELSE Result(Quotient(a, b), "none", Quotient(a, b))

divideOp(stored, a, b) ==
    IF EqualsZero(b) THEN Result(NaN, "std::invalid_argument", stored)
    ELSE Result(Quotient(a, b), "none", stored)

isPositiveOp(stored, number) == Result(number > 0, "none", stored)

isEvenOp(stored, number) == Result(Remainder(number, 2) = 0, "none", stored)

isEmptyOp(stored, str) == Result(Len(str) = 0, "none", stored)

concatenateOp(stored, str1, str2) == Result(str1 \o str2, "none", stored)

toUpperCaseOp(stored, str) ==
    Result([i \in DOMAIN str |-> ToUpper(str[i])], "none", stored)

getLengthOp(stored, str) == Result(Len(str), "none", stored)

setValueOp(stored, value) == Result(<<>>, "none", value)

getValueOp(stored) == Result(stored, "none", stored)

squareRootOp(stored, x) ==
    IF LessThanZero(x) THEN Result(NaN, "std::invalid_argument", stored)
    ELSE Result(Sqrt(x), "none", stored)

LoopCondition_StopsEarly(i, n) == i < n

(* The for loop of factorial: `i <= n` *)
LoopCondition(i, n) == i <= n

----------------------------------------------------------------------------
(* Calculator: state machine *)

(* A call that runs to completion in one step *)
CalcCall(op, args, r) ==
    /\ calcPc = "idle"
    /\ calcLast' = [op |-> op, args |-> args, ret |-> r.ret,
                    threw |-> r.threw]
    /\ stored_value_' = r.stored
    /\ lastSet' = IF op = "setValue" THEN args[1] ELSE lastSet
    /\ UNCHANGED <<value_, calcPc, frame>>
    /\ UNCHANGED <<vars, fixtureVars>>

add == \E a \in Ints, b \in Ints :
          CalcCall("add", <<a, b>>, addOp(stored_value_, a, b))

subtract == \E a \in Ints, b \in Ints :
          CalcCall("subtract", <<a, b>>, subtractOp(stored_value_, a, b))

multiply == \E a \in Ints, b \in Ints :
          CalcCall("multiply", <<a, b>>, multiplyOp(stored_value_, a, b))

divide == \E a \in Doubles, b \in Doubles :
          CalcCall("divide", <<a, b>>, divideOp(stored_value_, a, b))

isPositive == \E number \in Ints :
          CalcCall("isPositive", <<number>>,
                   isPositiveOp(stored_value_, number))

isEven == \E number \in Ints :
          CalcCall("isEven", <<number>>, isEvenOp(stored_value_, number))

isEmpty == \E str \in Strings :
          CalcCall("isEmpty", <<str>>, isEmptyOp(stored_value_, str))

concatenate == \E str1 \in Strings, str2 \in Strings :
          CalcCall("concatenate", <<str1, str2>>,
                   concatenateOp(stored_value_, str1, str2))

toUpperCase == \E str \in Strings :
          CalcCall("toUpperCase", <<str>>,
                   toUpperCaseOp(stored_value_, str))

getLength == \E str \in Strings :
          CalcCall("getLength", <<str>>, getLengthOp(stored_value_, str))

setValue == \E value \in Doubles :
          CalcCall("setValue", <<value>>, setValueOp(stored_value_, value))

getValue == CalcCall("getValue", <<>>, getValueOp(stored_value_))

squareRoot == \E x \in Doubles :
          CalcCall("squareRoot", <<x>>, squareRootOp(stored_value_, x))

(* factorial up to the loop: the argument check and the cases 0 and 1 *)
factorial ==
    /\ calcPc = "idle"
    /\ \E n \in FactorialArgs :
          IF n < 0
          THEN /\ calcLast' = [op |-> "factorial", args |-> <<n>>,
                               ret |-> <<>>,
                               threw |-> "std::invalid_argument"]
               /\ UNCHANGED <<calcPc, frame>>
          ELSE IF n = 0 \/ n = 1
          THEN /\ calcLast' = [op |-> "factorial", args |-> <<n>>,
                               ret |-> LongLong(1), threw |-> "none"]
               /\ UNCHANGED <<calcPc, frame>>
          ELSE /\ calcPc' = "factorial"
               /\ frame' = [n |-> n, i |-> 2, result |-> LongLong(1),
                            overflowed |-> FALSE]
               /\ calcLast' = [op |-> "factorial", args |-> <<n>>,
                               ret |-> <<>>, threw |-> "pending"]
    /\ UNCHANGED <<stored_value_, value_, lastSet>>
    /\ UNCHANGED <<vars, fixtureVars>>

(* One evaluation of the loop condition, then either the loop body and     *)
(* ++i, or the return.  A signed overflow of result *= i is undefined      *)
(* behaviour: the build either wraps or traps.                             *)
factorialLoop ==
    /\ calcPc = "factorial"
    /\ IF LoopCondition(frame.i, frame.n)
       THEN LET m == MulSmall(frame.result, frame.i) IN
            /\ UNCHANGED calcLast
            /\ IF m.overflow /\ ~frame.overflowed
               THEN \/ /\ frame' = [frame EXCEPT !.result = m.val,
                                                 !.i = frame.i + 1,
                                                 !.overflowed = TRUE]
                       /\ UNCHANGED calcPc
                    \/ /\ calcPc' = "aborted"
                       /\ frame' = <<>>
               ELSE /\ frame' = [frame EXCEPT !.result = m.val,
                                              !.i = frame.i + 1]
                    /\ UNCHANGED calcPc
       ELSE /\ calcLast' = [op |-> "factorial", args |-> <<frame.n>>,
                            ret |-> frame.result, threw |-> "none"]
            /\ calcPc' = "idle"
            /\ frame' = <<>>
    /\ UNCHANGED <<stored_value_, value_, lastSet>>
    /\ UNCHANGED <<vars, fixtureVars>>

CalcNext ==
    \/ add
    \/ subtract
    \/ multiply
    \/ divide
    \/ isPositive
    \/ isEven
    \/ isEmpty
    \/ concatenate
    \/ toUpperCase
    \/ getLength
    \/ setValue
    \/ getValue
    \/ factorial
    \/ factorialLoop
    \/ squareRoot

CalcSpec == Init /\ [][CalcNext]_allVars

(* The loop of factorial is not interrupted: the program is sequential *)
CalcLive == CalcSpec /\ WF_allVars(factorialLoop)

----------------------------------------------------------------------------
(* FixtureVerificationTest under the googletest runner *)

MaxRepeat == 2

(* The tests of the fixture, in the order of their definition *)
FixtureTests == <<"VerifySetupCalled", "VerifyFixtureIsolation">>

(* The orders in which one iteration runs the selected tests: the order of *)
(* definition, or any order under --gtest_shuffle.                         *)
RunOrders(filter, shuffle) ==
    {q \in UNION {[1..k -> filter] : k \in 0..Len(FixtureTests)} :
        /\ Len(q) = Cardinality(filter)
        /\ \A t \in filter : \E i \in DOMAIN q : q[i] = t
        /\ shuffle \/ \A i, j \in DOMAIN q :
              i < j => \E a, b \in DOMAIN FixtureTests :
                          a < b /\ FixtureTests[a] = q[i]
                                /\ FixtureTests[b] = q[j]}

(* EXPECT_TRUE / EXPECT_FALSE: a failed expectation is recorded and the    *)
(* test goes on.                                                           *)
Expect(cond, test, line) ==
    IF cond THEN {} ELSE {[test |-> test, line |-> line]}

FixtureStep ==
    UNCHANGED <<vars, calcVars>>

(* RUN_ALL_TESTS with the flags of the command line *)
RunAllTests ==
    /\ testPc = "start"
    /\ \E filter \in SUBSET Range(FixtureTests), shuffle \in BOOLEAN,
          n \in 1..MaxRepeat :
          /\ filter # {}
          /\ flags' = [filter |-> filter, shuffle |-> shuffle, repeat |-> n]
          /\ runQueue' \in RunOrders(filter, shuffle)
    /\ iteration' = 1
    /\ testPc' = "ready"
    /\ UNCHANGED <<verification_setup_called, verification_teardown_called,
                   current, failures>>
    /\ FixtureStep

(* FixtureVerificationTest::SetUp of the next test *)
SetUp ==
    /\ testPc = "ready"
    /\ runQueue # <<>>
    /\ current' = Head(runQueue)
    /\ runQueue' = Tail(runQueue)
    /\ verification_setup_called' = TRUE
    /\ testPc' = "body"
    /\ UNCHANGED <<verification_teardown_called, iteration, flags, failures>>
    /\ FixtureStep

(* TEST_F(FixtureVerificationTest, VerifySetupCalled) *)
VerifySetupCalled ==
    /\ testPc = "body"
    /\ current = "VerifySetupCalled"
    /\ failures' = failures
          \cup Expect(verification_setup_called, current, 441)
          \cup Expect(~verification_teardown_called, current, 444)
    /\ testPc' = "TearDown"
    /\ UNCHANGED <<verification_setup_called, verification_teardown_called,
                   runQueue, iteration, flags, current>>
    /\ FixtureStep

(* TEST_F(FixtureVerificationTest, VerifyFixtureIsolation) *)
VerifyFixtureIsolation ==
    /\ testPc = "body"
    /\ current = "VerifyFixtureIsolation"
    /\ failures' = failures
          \cup Expect(verification_setup_called, current, 449)
    /\ testPc' = "TearDown"
    /\ UNCHANGED <<verification_setup_called, verification_teardown_called,
                   runQueue, iteration, flags, current>>
    /\ FixtureStep

(* FixtureVerificationTest::TearDown *)
TearDown ==
    /\ testPc = "TearDown"
    /\ failures' = failures
          \cup Expect(verification_setup_called, current, 428)
    /\ verification_teardown_called' = TRUE
    /\ testPc' = "ready"
    /\ current' = "none"
    /\ UNCHANGED <<verification_setup_called, runQueue, iteration, flags>>
    /\ FixtureStep

(* The next iteration of --gtest_repeat: same process, same statics *)
NextIteration ==
    /\ testPc = "ready"
    /\ runQueue = <<>>
    /\ iteration < flags.repeat
    /\ iteration' = iteration + 1
    /\ runQueue' \in RunOrders(flags.filter, flags.shuffle)
    /\ UNCHANGED <<verification_setup_called, verification_teardown_called,
                   flags, testPc, current, failures>>
    /\ FixtureStep

(* RUN_ALL_TESTS returns *)
EndOfRun ==
    /\ testPc = "ready"
    /\ runQueue = <<>>
    /\ iteration = flags.repeat
    /\ testPc' = "end"
    /\ UNCHANGED <<verification_setup_called, verification_teardown_called,
                   runQueue, iteration, flags, current, failures>>
    /\ FixtureStep

FixtureNext ==
    \/ RunAllTests
    \/ SetUp
    \/ VerifySetupCalled
    \/ VerifyFixtureIsolation
    \/ TearDown
    \/ NextIteration
    \/ EndOfRun

FixtureSpec == Init /\ [][FixtureNext]_allVars

----------------------------------------------------------------------------
(* Vocabulary of the properties *)

DataMethods == {"insertUser", "getUserName", "getUserAge", "deleteUser",
                "getUserCount"}

GatedOps == {"createUser", "getUserInfo", "removeUser", "getTotalUsers"}

Sentinel(op) ==
    CASE op = "createUser" -> FALSE
      [] op = "removeUser" -> FALSE
      [] op = "getUserInfo" -> <<>>
      [] op = "getTotalUsers" -> -1

DataMethodOf(op) ==
    CASE op = "createUser" -> {"insertUser"}
      [] op = "removeUser" -> {"deleteUser"}
      [] op = "getUserInfo" -> {"getUserName", "getUserAge"}
      [] op = "getTotalUsers" -> {"getUserCount"}

Invoked(calls) == {calls[i].m : i \in DOMAIN calls}

(* The last operation was gated and found the gate open: initialized_ was  *)
(* set and its isConnected query was answered true.                        *)
LastGateOpen ==
    /\ last.op \in GatedOps
    /\ last.init
    /\ Len(last.calls) >= 1
    /\ last.calls[1].m = "isConnected"
    /\ last.calls[1].ret = TRUE

(* Reading a decimal numeral back, independently of to_string *)

DigitValue(c) ==
    CASE c = "0" -> 0 [] c = "1" -> 1 [] c = "2" -> 2 [] c = "3" -> 3
      [] c = "4" -> 4 [] c = "5" -> 5 [] c = "6" -> 6 [] c = "7" -> 7
      [] c = "8" -> 8 [] c = "9" -> 9 [] OTHER -> -1

RECURSIVE NatValue(_)
NatValue(s) ==
    IF Len(s) = 0 THEN 0
    ELSE 10 * NatValue(SubSeq(s, 1, Len(s) - 1)) + DigitValue(s[Len(s)])

IsNatNumeral(s) ==
    /\ Len(s) >= 1
    /\ \A i \in DOMAIN s : DigitValue(s[i]) >= 0
    /\ (Len(s) > 1 => s[1] # "0")

IsDecimalOf(s, a) ==
    IF a < 0
    THEN /\ Len(s) >= 2
         /\ s[1] = "-"
         /\ IsNatNumeral(Tail(s))
         /\ NatValue(Tail(s)) = -a
    ELSE /\ IsNatNumeral(s)
         /\ NatValue(s) = a

----------------------------------------------------------------------------
(* C1. Gate invariant: whenever an operation of the service has invoked a  *)
(* backend data method (insertUser, getUserName, getUserAge, deleteUser,   *)
(* getUserCount), initialized_ was true in that operation and an           *)
(* isConnected query made earlier in the same operation returned true.     *)
C1_GateInvariant ==
    \A i \in DOMAIN last.calls :
        last.calls[i].m \in DataMethods =>
            /\ last.init
            /\ \E j \in 1..(i - 1) :
                  /\ last.calls[j].m = "isConnected"
                  /\ last.calls[j].ret = TRUE

C1_Witness ==
    /\ last.op = "removeUser"
    /\ Invoked(last.calls) = {"isConnected", "deleteUser"}
    /\ ~dbConnected

(* C2. A gated operation invoked while the service is Uninitialized        *)
(* returns its sentinel (false / "" / -1) and invokes no data method; as   *)
(* long as no connect has returned true the service is Uninitialized and   *)
(* no data method has ever been invoked.                                   *)
C2_UninitializedSentinel ==
    /\ ~connectOk => (~initialized_ /\ Range(history) \cap DataMethods = {})
    /\ (last.op \in GatedOps /\ ~last.init) =>
          /\ last.ret = Sentinel(last.op)
          /\ Invoked(last.calls) \cap DataMethods = {}

C2_Witness ==
    /\ last.op = "getTotalUsers"
    /\ ~last.init
    /\ last.conn
    /\ database_ = "db"
    /\ initCalls >= 1
    /\ history = <<"connect">>

(* C3. A gated operation invoked while Initialized with isConnected        *)
(* answering false returns its sentinel, raises no error and leaves        *)
(* initialized_ unchanged.                                                 *)
C3_DisconnectedSentinel ==
    (last.op \in GatedOps /\ last.init /\ ~last.conn) =>
        /\ last.ret = Sentinel(last.op)
        /\ last.calls = <<Call("isConnected", <<>>, FALSE)>>
        /\ ~crashed
        /\ initialized_ = last.init

C3_Witness ==
    /\ last.op = "getTotalUsers"
    /\ last.init
    /\ ~last.conn
    /\ last.ret = -1

(* C4. With a null backend, initializeConnection returns false for every   *)
(* descriptor and however often it is called, calls nothing, and the       *)
(* service stays Uninitialized.                                            *)
C4_UnboundBackend ==
    database_ = "null" =>
        /\ ~initialized_
        /\ ~crashed
        /\ last.op = "initializeConnection" =>
              (last.ret = FALSE /\ last.calls = <<>>)

C4_Witness ==
    /\ database_ = "null"
    /\ last.op = "initializeConnection"
    /\ initCalls = MaxInitCalls
    /\ last.ret = FALSE

(* C5. When the bound backend's connect(D) returns true,                   *)
(* initializeConnection(D) returns true and the service is Initialized;    *)
(* from then on every gated operation invoked while the backend reports    *)
(* connected invokes its backend data method.                              *)
C5_SuccessfulInitialization ==
    /\ (/\ last.op = "initializeConnection"
        /\ last.calls = <<Call("connect", last.args, TRUE)>>) =>
            (last.ret = TRUE /\ initialized_)
    /\ connectOk => initialized_
    /\ (connectOk /\ last.op \in GatedOps /\ last.conn) =>
            DataMethodOf(last.op) \subseteq Invoked(last.calls)

C5_Witness ==
    /\ connectOk
    /\ last.op = "createUser"
    /\ last.conn
    /\ history = <<"connect", "isConnected", "insertUser">>

(* C6. On a bound backend initializeConnection returns exactly what        *)
(* connect returned; when the service was Uninitialized and connect        *)
(* returned false, it is still Uninitialized.                              *)
C6_FailedInitialization ==
    (last.op = "initializeConnection" /\ database_ = "db") =>
        /\ Len(last.calls) = 1
        /\ last.calls[1].m = "connect"
        /\ last.calls[1].args = last.args
        /\ last.ret = last.calls[1].ret
        /\ (~last.init /\ last.calls[1].ret = FALSE) => ~initialized_

C6_Witness ==
    /\ last.op = "initializeConnection"
    /\ database_ = "db"
    /\ ~last.init
    /\ last.ret = FALSE
    /\ ~initialized_

(* C7. initialized_ is false after construction, is never reset once       *)
(* true, and becomes true only in an initializeConnection whose connect    *)
(* returned true.                                                          *)
C7_FlagLifecycle ==
    /\ initialized_ = FALSE
    /\ [][/\ initialized_ => initialized_'
          /\ (~initialized_ /\ initialized_') =>
                /\ last'.op = "initializeConnection"
                /\ last'.calls = <<Call("connect", last'.args, TRUE)>>
         ]_vars

C7_Witness ==
    /\ initialized_
    /\ last.op = "initializeConnection"
    /\ last.init
    /\ last.ret = FALSE
    /\ ~dbConnected
    /\ Len(history) >= 3

(* C8 as stated. With the gate open and getUserName returning the empty    *)
(* string, getUserInfo does not invoke getUserAge.                         *)
C8_AgeNotInvoked ==
    (/\ last.op = "getUserInfo"
     /\ LastGateOpen
     /\ Len(last.calls) >= 2
     /\ last.calls[2] = Call("getUserName", last.args, EmptyString)) =>
        "getUserAge" \notin Invoked(last.calls)

(* C8 amended. With the gate open and getUserName returning the empty      *)
(* string, getUserInfo returns the empty string; getUserAge is still       *)
(* invoked once, after getUserName, and its result is discarded.           *)
C8_AgeInvokedAndDiscarded ==
    (/\ last.op = "getUserInfo"
     /\ LastGateOpen
     /\ Len(last.calls) >= 2
     /\ last.calls[2] = Call("getUserName", last.args, EmptyString)) =>
        /\ last.ret = EmptyString
        /\ Len(last.calls) = 3
        /\ last.calls[3].m = "getUserAge"
        /\ last.calls[3].args = last.args

C8_Witness ==
    /\ last.op = "getUserInfo"
    /\ LastGateOpen
    /\ Len(last.calls) = 3
    /\ last.calls[2].ret = EmptyString
    /\ last.calls[3].ret = 25

(* C9. With the gate open and getUserName returning the empty string, the  *)
(* result of getUserInfo is the empty string whatever getUserAge returns:  *)
(* the same call replayed with any other age gives the result observed.    *)
C9_AgeIndependence ==
    (/\ last.op = "getUserInfo"
     /\ LastGateOpen
     /\ Len(last.calls) >= 2
     /\ last.calls[2] = Call("getUserName", last.args, EmptyString)) =>
        /\ last.ret = EmptyString
        /\ \A otherAge \in Ages :
              getUserInfoOp(last.init, database_, last.conn, last.args[1],
                            EmptyString, otherAge).ret = last.ret

C9_Witness ==
    /\ last.op = "getUserInfo"
    /\ LastGateOpen
    /\ Len(last.calls) = 3
    /\ last.calls[2].ret = EmptyString
    /\ last.calls[3].ret = -12
    /\ last.ret = EmptyString

(* C10. With the gate open, a non-empty name n and an age a returned by    *)
(* this call's lookups for its id, getUserInfo returns "Name: " n          *)
(* ", Age: " followed by the decimal numeral of a.                         *)
C10_Formatting ==
    (/\ last.op = "getUserInfo"
     /\ LastGateOpen
     /\ Len(last.calls) >= 2
     /\ last.calls[2].m = "getUserName"
     /\ last.calls[2].ret # EmptyString) =>
        LET n == last.calls[2].ret
            r == last.ret
            k == 6 + Len(n) + 7
        IN
        /\ Len(last.calls) = 3
        /\ last.calls[2].args = last.args
        /\ last.calls[3].m = "getUserAge"
        /\ last.calls[3].args = last.args
        /\ Len(r) > k
        /\ SubSeq(r, 1, 6) = <<"N", "a", "m", "e", ":", " ">>
        /\ SubSeq(r, 7, 6 + Len(n)) = n
        /\ SubSeq(r, 7 + Len(n), k) = <<",", " ", "A", "g", "e", ":", " ">>
        /\ IsDecimalOf(SubSeq(r, k + 1, Len(r)), last.calls[3].ret)
        /\ (n = <<"A", "l", "i", "c", "e">> /\ last.calls[3].ret = 25) =>
              r = <<"N", "a", "m", "e", ":", " ", "A", "l", "i", "c", "e",
                    ",", " ", "A", "g", "e", ":", " ", "2", "5">>

C10_Witness ==
    /\ last.op = "getUserInfo"
    /\ last.args = <<1>>
    /\ last.ret = <<"N", "a", "m", "e", ":", " ", "A", "l", "i", "c", "e",
                    ",", " ", "A", "g", "e", ":", " ", "2", "5">>

C10_WitnessNegativeAge ==
    /\ last.op = "getUserInfo"
    /\ last.ret = <<"N", "a", "m", "e", ":", " ", "B", "o", "b",
                    ",", " ", "A", "g", "e", ":", " ", "-", "1", "2">>

(* The backend gave the same answer wherever both operations asked it *)
AnswersAgree(calls1, calls2) ==
    \A i \in (DOMAIN calls1) \cap (DOMAIN calls2) : calls1[i] = calls2[i]

(* C11. Idempotence of getUserInfo: a getUserInfo(id) that directly        *)
(* follows a getUserInfo(id), with the backend answering the same          *)
(* connection status, name and age, returns the same string; and a         *)
(* getUserInfo call changes neither initialized_ nor database_.            *)
C11_GetUserInfoIdempotent ==
    [][last'.op = "getUserInfo" =>
          /\ initialized_' = initialized_
          /\ database_' = database_
          /\ (/\ last.op = "getUserInfo"
              /\ last.args = last'.args
              /\ last.conn = last'.conn
              /\ AnswersAgree(last.calls, last'.calls)) =>
                    last'.ret = last.ret
      ]_vars

C11_Witness ==
    /\ repeated
    /\ last.op = "getUserInfo"
    /\ last.ret = <<"N", "a", "m", "e", ":", " ", "B", "o", "b",
                    ",", " ", "A", "g", "e", ":", " ", "7">>
    /\ history = <<"connect", "isConnected", "getUserName", "getUserAge",
                   "isConnected", "getUserName", "getUserAge">>
    /\ initialized_

(* C12. Verbatim delegation with the gate open: createUser(name, age)      *)
(* invokes insertUser once with the same name and age and returns its      *)
(* result; removeUser(id) does the same with deleteUser(id);               *)
(* getTotalUsers() returns the value of getUserCount().                    *)
C12_VerbatimDelegation ==
    (LastGateOpen /\ last.op \in {"createUser", "removeUser",
                                  "getTotalUsers"}) =>
        /\ Len(last.calls) = 2
        /\ last.calls[2].m = CASE last.op = "createUser" -> "insertUser"
                               [] last.op = "removeUser" -> "deleteUser"
                               [] last.op = "getTotalUsers" -> "getUserCount"
        /\ last.calls[2].args = last.args
        /\ last.ret = last.calls[2].ret

C12_Witness ==
    /\ last.op = "createUser"
    /\ LastGateOpen
    /\ last.args = <<<<"A", "l", "i", "c", "e">>, 25>>
    /\ last.calls[2].ret = FALSE
    /\ last.ret = FALSE

(* C13. Ordering of backend calls.  After exactly initializeConnection,   *)
(* createUser, getTotalUsers on a backend that connects and reports        *)
(* connected, the backend has seen connect, isConnected, insertUser,       *)
(* isConnected, getUserCount in that order, createUser returned true       *)
(* (insertUser -> true) and getTotalUsers returned 1 (getUserCount -> 1).  *)
(* In general a gated operation on an Initialized service calls            *)
(* isConnected exactly once, first.                                        *)
C13_CallOrder ==
    /\ scenario = 1 => history = <<"connect">>
    /\ scenario = 2 =>
          /\ history = <<"connect", "isConnected", "insertUser">>
          /\ last.op = "createUser"
          /\ last.ret = TRUE
    /\ scenario = 3 =>
          /\ history = <<"connect", "isConnected", "insertUser",
                         "isConnected", "getUserCount">>
          /\ last.op = "getTotalUsers"
          /\ last.ret = 1
    /\ (last.op \in GatedOps /\ last.init) =>
          /\ Len(last.calls) >= 1
          /\ last.calls[1].m = "isConnected"
          /\ \A i \in DOMAIN last.calls :
                last.calls[i].m = "isConnected" => i = 1

C13_Witness ==
    /\ scenario = 3
    /\ last.op = "getTotalUsers"
    /\ last.ret = 1
    /\ Len(history) = 5
    /\ dbConnected

(* C14. Every initializeConnection on a bound backend invokes connect      *)
(* exactly once, with the given descriptor, and no other backend method,   *)
(* whether or not the service is already Initialized.                      *)
C14_ConnectOncePerCall ==
    /\ (last.op = "initializeConnection" /\ database_ = "db") =>
          /\ Methods(last.calls) = <<"connect">>
          /\ last.calls[1].args = last.args
    /\ database_ = "db" =>
          Cardinality({i \in DOMAIN history : history[i] = "connect"})
              = initCalls

C14_Witness ==
    /\ last.op = "initializeConnection"
    /\ last.init
    /\ last.ret = TRUE
    /\ initCalls = 2
    /\ history = <<"connect", "isConnected", "connect">>

(* The methods of DatabaseInterface *)
InterfaceMethods ==
    {"connect", "disconnect", "isConnected", "insertUser", "getUserName",
     "getUserAge", "updateUser", "deleteUser", "getAllUserNames",
     "getUserCount", "executeQuery", "getLastError", "clearError"}

NeverInvoked ==
    {"getLastError", "clearError", "disconnect", "updateUser",
     "getAllUserNames", "executeQuery"}

(* C15. The service never invokes getLastError, clearError, disconnect,    *)
(* updateUser, getAllUserNames or executeQuery: every backend method it    *)
(* has invoked is one of connect, isConnected, insertUser, getUserName,    *)
(* getUserAge, deleteUser, getUserCount.                                   *)
C15_MethodsUsed ==
    /\ Range(history) \cap NeverInvoked = {}
    /\ Invoked(last.calls) \cap NeverInvoked = {}
    /\ Range(history) \subseteq InterfaceMethods \ NeverInvoked
    /\ InterfaceMethods \ NeverInvoked =
          {"connect", "isConnected"} \cup DataMethods

C15_Witness ==
    /\ Len(history) = 7
    /\ {"connect", "isConnected", "insertUser", "deleteUser",
        "getUserCount"} \subseteq Range(history)

(* C16. A service constructed with a null backend never dereferences it:   *)
(* initialized_ implies that database_ is bound, no operation reaches the  *)
(* undefined behaviour of a null dereference, and every gated operation    *)
(* on such a service returns its sentinel without any backend call.        *)
C16_NullBackendSafe ==
    /\ initialized_ => database_ = "db"
    /\ ~crashed
    /\ (database_ = "null" /\ last.op \in GatedOps) =>
          /\ last.ret = Sentinel(last.op)
          /\ last.calls = <<>>
    /\ (database_ = "null" /\ last.op = "DatabaseService") =>
          last.args = <<"null">>

C16_Witness ==
    /\ database_ = "null"
    /\ initCalls >= 1
    /\ last.op = "getUserInfo"
    /\ last.ret = EmptyString
    /\ ~crashed

(* C17. A failed re-initialization does not close the gate: an            *)
(* initializeConnection on an Initialized service whose connect returns    *)
(* false returns false and leaves the service Initialized, and afterwards  *)
(* gated operations still reach the backend whenever it reports connected. *)
C17_FailedReinitKeepsGate ==
    /\ (/\ last.op = "initializeConnection"
        /\ last.init
        /\ Len(last.calls) = 1
        /\ last.calls[1].ret = FALSE) =>
              (last.ret = FALSE /\ initialized_)
    /\ reinitFailed =>
          /\ initialized_
          /\ (last.op \in GatedOps /\ last.conn) =>
                /\ LastGateOpen
                /\ DataMethodOf(last.op) \subseteq Invoked(last.calls)

C17_Witness ==
    /\ reinitFailed
    /\ last.op = "removeUser"
    /\ last.conn
    /\ history = <<"connect", "connect", "isConnected", "deleteUser">>

(* C18. While the service is Uninitialized a gated operation invokes no    *)
(* backend method at all, not even isConnected: until a connect has        *)
(* returned true the backend has seen nothing but connect.                 *)
C18_NoQueryWhileUninitialized ==
    /\ [](/\ (last.op \in GatedOps /\ ~last.init) => last.calls = <<>>
          /\ ~connectOk => Range(history) \subseteq {"connect"})
    /\ [][(~initialized_ /\ "isConnected" \in Range(history'))
              => "isConnected" \in Range(history)]_vars

C18_Witness ==
    /\ ~connectOk
    /\ database_ = "db"
    /\ dbConnected
    /\ last.op = "removeUser"
    /\ last.conn
    /\ history = <<"connect">>

(* The last (gated) operation invoked its backend data method *)
Delegated == DataMethodOf(last.op) \subseteq Invoked(last.calls)

(* C19. The gate is evaluated anew on every call and has no memory: once   *)
(* a connect has returned true, a gated operation delegates to the backend *)
(* exactly when the backend reports connected at that call, whatever       *)
(* earlier calls saw, and returns its sentinel otherwise.                  *)
C19_GateHasNoMemory ==
    last.op \in GatedOps =>
        /\ Delegated <=> (connectOk /\ last.conn)
        /\ ~Delegated => (last.ret = Sentinel(last.op)
                            /\ Invoked(last.calls) \cap DataMethods = {})

C19_Witness ==
    /\ initCalls = 1
    /\ history = <<"connect", "isConnected", "isConnected", "getUserCount">>
    /\ last.op = "getTotalUsers"
    /\ last.ret = 1

(* C20. When getUserCount answers a non-negative count, getTotalUsers      *)
(* returns -1 exactly when the gate is closed (Uninitialized, or the       *)
(* backend not connected at the call); a non-negative result is always     *)
(* the backend's count.                                                    *)
C20_TotalUsersSentinel ==
    last.op = "getTotalUsers" =>
        LET closed == ~(last.init /\ last.conn)
            counts == {last.calls[i].ret :
                          i \in {j \in DOMAIN last.calls :
                                    last.calls[j].m = "getUserCount"}}
        IN
        /\ closed => (last.ret = -1 /\ counts = {})
        /\ (\A c \in counts : c >= 0) => (last.ret = -1 <=> closed)
        /\ last.ret >= 0 => (~closed /\ counts = {last.ret})

C20_Witness ==
    /\ last.op = "getTotalUsers"
    /\ last.init
    /\ last.conn
    /\ last.ret = 0
    /\ Len(last.calls) = 2
    /\ last.calls[2].ret = 0

(* Without the proviso the equivalence fails: a backend answering -1       *)
(* makes getTotalUsers return -1 through an open gate.                     *)
C20_OpenGateMinusOne ==
    /\ last.op = "getTotalUsers"
    /\ LastGateOpen
    /\ last.ret = -1


----------------------------------------------------------------------------
(* Vocabulary of the Calculator properties *)

(* Decimal numerals, least significant digit first *)
Reverse(s) == [i \in 1..Len(s) |-> s[Len(s) + 1 - i]]

DivMod10(x) ==
    LET c4 == x[4]
        c3 == (c4 % 10) * LimbBase + x[3]
        c2 == (c3 % 10) * LimbBase + x[2]
        c1 == (c2 % 10) * LimbBase + x[1]
    IN [quot |-> <<c1 \div 10, c2 \div 10, c3 \div 10, c4 \div 10>>,
        rem |-> c1 % 10]

(* The numeral of a non-negative long long *)
RECURSIVE ToDecimal(_)
ToDecimal(x) ==
    IF x = LongLong(0) THEN <<>>
    ELSE <<DivMod10(x).rem>> \o ToDecimal(DivMod10(x).quot)

(* The numeral of d * k + carry *)
RECURSIVE DecTimes(_, _, _)
DecTimes(d, k, carry) ==
    IF d = <<>>
    THEN (IF carry = 0 THEN <<>>
          ELSE <<carry % 10>> \o DecTimes(<<>>, k, carry \div 10))
    ELSE <<(d[1] * k + carry) % 10>>
         \o DecTimes(Tail(d), k, (d[1] * k + carry) \div 10)

(* n! of mathematics, as a numeral *)
RECURSIVE MathFactorial(_)
MathFactorial(n) ==
    IF n = 0 THEN <<1>> ELSE DecTimes(MathFactorial(n - 1), n, 0)

FactorialReturned ==
    calcLast.op = "factorial" /\ calcLast.threw # "pending"

----------------------------------------------------------------------------
(* C21: factorial(n) terminates and returns n! for every n from 0 to 20,   *)
(* and throws std::invalid_argument for every negative n.  A call with n   *)
(* below zero ends with the exception; a call with 0 <= n <= 20 ends       *)
(* without one, its result is the number n!, it never aborts, and once     *)
(* its loop is entered the call always returns.                            *)
C21_FactorialResult ==
    FactorialReturned =>
        LET n == calcLast.args[1] IN
        /\ n < 0 => calcLast.threw = "std::invalid_argument"
        /\ n \in 0..20 =>
              /\ calcLast.threw = "none"
              /\ ToDecimal(calcLast.ret) = MathFactorial(n)

C21_NoAbort == calcPc = "aborted" => calcLast.args[1] > 20

C21_Factorial ==
    /\ [](C21_FactorialResult /\ C21_NoAbort)
    /\ (calcPc = "factorial" /\ frame.n \in 0..20)
          ~> (calcPc = "idle" /\ FactorialReturned /\ calcLast.threw = "none")

(* factorial(20) has returned 2432902008176640000 *)
C21_Witness ==
    /\ FactorialReturned
    /\ calcLast.args = <<20>>
    /\ calcLast.threw = "none"
    /\ ToDecimal(calcLast.ret)
          = Reverse(<<2, 4, 3, 2, 9, 0, 2, 0, 0, 8, 1, 7, 6, 6, 4, 0, 0, 0, 0>>)

(* factorial(-1) has thrown, as the test ExceptionAssertions expects *)
C21_WitnessThrows ==
    /\ FactorialReturned
    /\ calcLast.args = <<-1>>
    /\ calcLast.threw = "std::invalid_argument"


----------------------------------------------------------------------------
(* The number a double stands for: NaN is no number, the two zeros are the *)
(* number zero, and a number is negative when it is below zero.            *)
IsNumber(x) == x.class # "nan"

IsZeroNumber(x) == IsNumber(x) /\ x.num = 0

IsNegativeNumber(x) == IsNumber(x) /\ x.num > 0 /\ x.neg

(* C22: divide(a, b) raises std::invalid_argument exactly when b equals    *)
(* zero, and squareRoot(x) raises it exactly when x is negative; for every *)
(* other input no error is raised, and in both cases the stored value of   *)
(* the calculator is unchanged.                                            *)
C22_RaisesExactlyWhen ==
    /\ calcLast.op = "divide" =>
          /\ calcLast.threw \in {"none", "std::invalid_argument"}
          /\ calcLast.threw = "std::invalid_argument"
                <=> IsZeroNumber(calcLast.args[2])
    /\ calcLast.op = "squareRoot" =>
          /\ calcLast.threw \in {"none", "std::invalid_argument"}
          /\ calcLast.threw = "std::invalid_argument"
                <=> IsNegativeNumber(calcLast.args[1])

C22_ErrorHandling ==
    /\ []C22_RaisesExactlyWhen
    /\ [][calcLast'.op \in {"divide", "squareRoot"}
             => stored_value_' = stored_value_]_allVars

(* divide by negative zero has thrown, with a value stored before *)
C22_Witness ==
    /\ calcLast.op = "divide"
    /\ calcLast.args[2] = Zero(TRUE)
    /\ calcLast.threw = "std::invalid_argument"
    /\ stored_value_ = Finite(FALSE, 16, 1)

(* squareRoot(-4.0) has thrown and squareRoot(16.0) has returned 4.0 *)
C22_WitnessSquareRootThrows ==
    /\ calcLast.op = "squareRoot"
    /\ calcLast.args = <<Finite(TRUE, 4, 1)>>
    /\ calcLast.threw = "std::invalid_argument"
    /\ stored_value_ = Finite(FALSE, 16, 1)

C22_WitnessSquareRootReturns ==
    /\ calcLast.op = "squareRoot"
    /\ calcLast.args = <<Finite(FALSE, 16, 1)>>
    /\ calcLast.threw = "none"
    /\ calcLast.ret = Finite(FALSE, 4, 1)

(* divide(16.0, 4.0) has returned 4.0 *)
C22_WitnessDivideReturns ==
    /\ calcLast.op = "divide"
    /\ calcLast.args = <<Finite(FALSE, 16, 1), Finite(FALSE, 4, 1)>>
    /\ calcLast.threw = "none"
    /\ calcLast.ret = Finite(FALSE, 4, 1)

----------------------------------------------------------------------------
(* C23: getValue returns 0 on a fresh Calculator and otherwise the         *)
(* argument of the most recent setValue, after any sequence of operations; *)
(* every operation except setValue leaves the stored value unchanged.      *)
C23_GetValueReturnsLastSet ==
    calcLast.op = "getValue" =>
        /\ calcLast.threw = "none"
        /\ calcLast.ret = lastSet

C23_StoredValue ==
    /\ []C23_GetValueReturnsLastSet
    /\ [][calcLast'.op # "setValue"
             => stored_value_' = stored_value_]_allVars

(* getValue has returned the 16.0 that setValue stored *)
C23_Witness ==
    /\ calcLast.op = "getValue"
    /\ calcLast.ret = Finite(FALSE, 16, 1)
    /\ lastSet = Finite(FALSE, 16, 1)

(* a string operation has run on a calculator that stores 16.0 *)
C23_WitnessOtherOperation ==
    /\ calcLast.op = "toUpperCase"
    /\ calcLast.ret = <<"T", "E", "S", "T", "1">>
    /\ stored_value_ = Finite(FALSE, 16, 1)
    /\ lastSet = Finite(FALSE, 16, 1)


----------------------------------------------------------------------------
(* C24: whenever the body of VerifySetupCalled runs, SetUp has already run *)
(* (verification_setup_called is true) and TearDown has not been called    *)
(* yet (verification_teardown_called is still false).                      *)
InVerifySetupCalled == testPc = "body" /\ current = "VerifySetupCalled"

C24_SetUpRunTearDownNotYet ==
    InVerifySetupCalled =>
        /\ verification_setup_called
        /\ ~verification_teardown_called

(* The half of C24 about SetUp, and the test that rests on it *)
C24_SetUpHasRun ==
    /\ InVerifySetupCalled => verification_setup_called
    /\ \A f \in failures : f.line = 444

(* C24 in the first iteration of a run in the order of definition *)
C24_FirstInDefinitionOrder ==
    (InVerifySetupCalled /\ ~flags.shuffle /\ iteration = 1)
        => ~verification_teardown_called

(* The body of VerifySetupCalled runs in a second iteration *)
C24_WitnessRepeated ==
    InVerifySetupCalled /\ iteration = 2 /\ ~flags.shuffle

(* The body of VerifySetupCalled runs after VerifyFixtureIsolation *)
C24_WitnessShuffled ==
    InVerifySetupCalled /\ iteration = 1 /\ runQueue = <<>>
        /\ flags.filter = Range(FixtureTests)

====
